---- MODULE Spec2Model ----
(***************************************************************************)
(* A model of libavcodec/extract_extradata_bsf.c: the bitstream filter     *)
(* that copies in-band codec headers (H.264/HEVC parameter sets, VC1 and   *)
(* MPEG-1/2/4 sequence headers) into a NEW_EXTRADATA side-data entry of    *)
(* the packet and, with the "remove" option, strips them from the payload. *)
(*                                                                         *)
(* One behaviour is one filter context: the context is set up              *)
(* (extract_extradata_init) and the filter callback is invoked once        *)
(* (extract_extradata_filter) on the packet the host queued, under every   *)
(* combination of allocation, split and side-data failures.                *)
(*                                                                         *)
(* Memory is explicit: `mem` holds the bytes of each buffer, `heap` holds  *)
(* for each buffer handle whether it was acquired, how often it was        *)
(* released and who owns it.  A packet is a window (buf, off, size) into   *)
(* a buffer, as AVPacket.data/size point into AVPacket.buf.                *)
(***************************************************************************)
EXTENDS Integers, Sequences, FiniteSets, TLC

VARIABLES
    pc,           \* "new" | "ready" | "init_failed" | "returned" | "crashed"
    codec_id,     \* ctx->par_in->codec_id
    remove,       \* ExtractExtradataContext.remove (0 or 1)
    extract,      \* ExtractExtradataContext.extract ("NULL" or a strategy)
    buffer_pkt,   \* the packet the host queued (ctx->internal->buffer_pkt)
    in_nals,      \* what the NAL splitter finds in the queued packet
    out,          \* the caller's output packet
    ret,          \* return value of the last callback
    extract_ret,  \* return value of the strategy (1: not called)
    heap,         \* handle -> [acq, rel, owner]
    mem,          \* handle -> bytes
    events        \* what happened inside the call (failures injected, UB hit)

vars == <<pc, codec_id, remove, extract, buffer_pkt, in_nals, out, ret,
          extract_ret, heap, mem, events>>

(***************************************************************************)
(* Bounds of the model.                                                    *)
(***************************************************************************)
\* Most chunks (single bytes or whole start codes) a start-code payload is built of.
MaxChunks == 3
\* Most NAL units in an H.264/HEVC packet.
MaxNals == 3

(***************************************************************************)
(* Program constants.                                                      *)
(***************************************************************************)
\* Padding added to every allocation (avcodec.h; 8 in Libav).
AV_INPUT_BUFFER_PADDING_SIZE == 8
\* AVERROR(ENOMEM)
AVERROR_ENOMEM == -12
\* AVERROR(EAGAIN): ff_bsf_get_packet with no packet queued
AVERROR_EAGAIN == -11
\* AVERROR_INVALIDDATA: the splitter's parse failure
AVERROR_INVALIDDATA == -1094995529
\* AVERROR_BUG
AVERROR_BUG == -558323010

codec_ids ==
    <<"AV_CODEC_ID_CAVS", "AV_CODEC_ID_H264", "AV_CODEC_ID_HEVC",
      "AV_CODEC_ID_MPEG1VIDEO", "AV_CODEC_ID_MPEG2VIDEO",
      "AV_CODEC_ID_MPEG4", "AV_CODEC_ID_VC1">>

extract_tab ==
    <<[id |-> "AV_CODEC_ID_CAVS",       extract |-> "extract_extradata_mpeg124"],
      [id |-> "AV_CODEC_ID_H264",       extract |-> "extract_extradata_h2645"],
      [id |-> "AV_CODEC_ID_HEVC",       extract |-> "extract_extradata_h2645"],
      [id |-> "AV_CODEC_ID_MPEG1VIDEO", extract |-> "extract_extradata_mpeg124"],
      [id |-> "AV_CODEC_ID_MPEG2VIDEO", extract |-> "extract_extradata_mpeg124"],
      [id |-> "AV_CODEC_ID_MPEG4",      extract |-> "extract_extradata_mpeg124"],
      [id |-> "AV_CODEC_ID_VC1",        extract |-> "extract_extradata_vc1"]>>

extradata_nal_types_hevc == <<"HEVC_NAL_VPS", "HEVC_NAL_SPS", "HEVC_NAL_PPS">>

extradata_nal_types_h264 == <<"H264_NAL_SPS", "H264_NAL_PPS">>

(***************************************************************************)
(* 32-bit unsigned words, as their four bytes (most significant first):    *)
(* the rolling start-code window is a uint32_t and keeps that width.       *)
(***************************************************************************)
UINT32_MAX == <<255, 255, 255, 255>>

\* The word of a number below 2^16.
U32(n) == <<0, 0, n \div 256, n % 256>>

\* state = (state << 8) | byte, in 32 bits: the top byte falls off.
ShiftIn(state, byte) == <<state[2], state[3], state[4], byte>>

\* a < b for unsigned words
U32Lt(a, b) ==
    \E k \in 1..4 : a[k] < b[k] /\ \A j \in 1..(k - 1) : a[j] = b[j]

\* x & ~0xFF
MaskLowByte(x) == <<x[1], x[2], x[3], 0>>

\* vc1_common.h: enum VC1Code and IS_MARKER
VC1_CODE_RES0 == U32(\h0100)

VC1_CODE_ENTRYPOINT == U32(\h010E)

VC1_CODE_SEQHDR == U32(\h010F)

IS_MARKER(x) == MaskLowByte(x) = VC1_CODE_RES0

(***************************************************************************)
(* Memory and packets.                                                     *)
(***************************************************************************)
Handles == {"inbuf", "nals", "filtered", "extradata"}

\* Fresh memory: n bytes of indeterminate content (256: no byte value).
av_malloc_bytes(n) == [k \in 1..n |-> 256]

\* Bytes written at offset pos of buf.
Write(buf, pos, bytes) ==
    [k \in 1..Len(buf) |->
        IF k > pos /\ k <= pos + Len(bytes) THEN bytes[k - pos] ELSE buf[k]]

\* AV_WB24(p, v): three bytes, big endian
AV_WB24(buf, pos, v) ==
    Write(buf, pos, <<(v \div 65536) % 256, (v \div 256) % 256, v % 256>>)

\* memcpy(dst + pos, src, n)
memcpy(buf, pos, src, n) == Write(buf, pos, SubSeq(src, 1, n))

\* A handle is acquired by its owner.
Alloc(hp, h, owner) ==
    [hp EXCEPT ![h] = [acq |-> 1, rel |-> 0, owner |-> owner]]

\* A handle is released (av_buffer_unref, av_free, ff_h2645_packet_uninit).
Unref(hp, h) ==
    [hp EXCEPT ![h] = [acq |-> @.acq, rel |-> @.rel + 1, owner |-> "none"]]

\* Ownership moves, the buffer stays.
Move(hp, h, owner) == [hp EXCEPT ![h].owner = owner]

\* An empty packet (av_packet_alloc, or a packet moved from).
BlankPkt == [buf |-> "NULL", off |-> 0, size |-> 0, side_data |-> <<>>]

\* The bytes pkt->data[0 .. pkt->size) of a packet.
Payload(pkt, mm) ==
    IF pkt.buf = "NULL" THEN <<>>
    ELSE SubSeq(mm[pkt.buf], pkt.off + 1, pkt.off + pkt.size)

\* What a strategy hands back: its return value, *data, *size, and the
\* packet and memory as it leaves them.
Result(r, data, size, pkt, hp, mm, ev) ==
    [ret |-> r, data |-> data, size |-> size, pkt |-> pkt,
     heap |-> hp, mem |-> mm, events |-> ev]

val_in_array(arr, val) == \E i \in 1..Len(arr) : arr[i] = val

(***************************************************************************)
(* Failures the environment can inject into one call, and the outcome of   *)
(* the one undefined operation of the code.                                *)
(*   split: what ff_h2645_packet_split does ("ok", or "fail": a parse      *)
(*          failure, which leaves nothing allocated);                      *)
(*   ub:    what av_buffer_unref does on an uninitialised pointer ("null": *)
(*          the garbage is NULL, nothing happens; "corrupt": it is not,    *)
(*          a wild reference is dropped and the call goes on; "crash").    *)
(* Every failure ends the call, so at most one happens in a call: the      *)
(* scenarios are "nothing fails" and "this one step fails".                *)
(***************************************************************************)
NoFault ==
    [split |-> "ok", filtered_alloc_fails |-> FALSE,
     extradata_alloc_fails |-> FALSE, side_data_fails |-> FALSE,
     ub |-> "null"]

Faults ==
    {NoFault}
    \cup {[NoFault EXCEPT !.split = "fail"]}
    \cup {[NoFault EXCEPT !.filtered_alloc_fails = TRUE]}
    \cup {[NoFault EXCEPT !.extradata_alloc_fails = TRUE, !.ub = u] :
             u \in {"null", "corrupt", "crash"}}
    \cup {[NoFault EXCEPT !.side_data_fails = TRUE]}

(***************************************************************************)
(* H.264 / HEVC                                                            *)
(***************************************************************************)
\* The NAL splitter, an external primitive: the ordered NAL units
\* (type, raw_data, raw_size) of the packet, or a parse failure.
ff_h2645_packet_split(hp, f) ==
    CASE f.split = "ok" ->
           [ret |-> 0, heap |-> Alloc(hp, "nals", "local"),
            nals |-> in_nals, events |-> {}]
      [] f.split = "fail" ->
           [ret |-> AVERROR_INVALIDDATA, heap |-> hp,
            nals |-> <<>>, events |-> {"split_failed"}]

\* ff_h2645_packet_uninit
ff_h2645_packet_uninit(hp) == Unref(hp, "nals")

\* A wrong count of the start code's bytes.
nal_cost_4(nal) == nal.raw_size + 4

\* What one extracted unit costs: its raw bytes and a 3-byte start code.
nal_cost(nal) == nal.raw_size + 3

\* The first loop: extradata_size
RECURSIVE h2645_extradata_size(_, _, _)
h2645_extradata_size(nals, i, types) ==
    IF i >= Len(nals) THEN 0
    ELSE (IF val_in_array(types, nals[i + 1].type)
          THEN nal_cost(nals[i + 1]) ELSE 0)
         + h2645_extradata_size(nals, i + 1, types)

\* One unit written at a cursor: start code, raw bytes.
write_nal(buf, cur, nal) ==
    memcpy(AV_WB24(buf, cur, 1), cur + 3, nal.raw_data, nal.raw_size)

\* The second loop. w holds the two buffers and their cursors.
RECURSIVE h2645_walk(_, _, _, _)
h2645_walk(nals, i, types, w) ==
    IF i >= Len(nals) THEN w
    ELSE LET nal == nals[i + 1] IN
         IF val_in_array(types, nal.type)
         THEN h2645_walk(nals, i + 1, types,
                  [w EXCEPT !.extradata = write_nal(@, w.ecur, nal),
                            !.ecur = @ + 3 + nal.raw_size])
         ELSE IF remove # 0
         THEN h2645_walk(nals, i + 1, types,
                  [w EXCEPT !.filtered = write_nal(@, w.fcur, nal),
                            !.fcur = @ + 3 + nal.raw_size])
         ELSE h2645_walk(nals, i + 1, types, w)

\* The allocated size taken for the length written.
filtered_size_cap(w, cap) == cap

\* pkt->size = filtered_data - filtered_buf->data
filtered_size(w, cap) == w.fcur

\* The packet's buffer is swapped for the filtered one.
h2645_swap(pkt, size) == [pkt EXCEPT !.buf = "filtered", !.off = 0, !.size = size]

\* av_buffer_unref(&filtered_buf) after the extradata allocation failed:
\* filtered_buf is set only when remove is set.
h2645_unref_filtered(hp, f) ==
    IF remove # 0
    THEN [heap |-> Unref(hp, "filtered"), events |-> {}]
    ELSE [heap |-> hp,
          events |-> {"uninit_release"}
                     \cup (IF f.ub = "crash" THEN {"crash"} ELSE {})
                     \cup (IF f.ub = "corrupt" THEN {"heap_corrupted"} ELSE {})]

extract_extradata_h2645(pkt, hp, mm, f) ==
    LET types == IF codec_id = "AV_CODEC_ID_HEVC"
                 THEN extradata_nal_types_hevc
                 ELSE extradata_nal_types_h264
        split == ff_h2645_packet_split(hp, f)
        nals  == split.nals
        extradata_size == h2645_extradata_size(nals, 0, types)
        cap   == pkt.size + AV_INPUT_BUFFER_PADDING_SIZE
    IN
    IF split.ret < 0
    THEN Result(split.ret, "NULL", -1, pkt, split.heap, mm, split.events)
    ELSE IF extradata_size = 0
    THEN Result(split.ret, "NULL", -1, pkt,
                ff_h2645_packet_uninit(split.heap), mm, {})
    ELSE IF remove # 0 /\ f.filtered_alloc_fails
    THEN Result(split.ret, "NULL", -1, pkt,
                ff_h2645_packet_uninit(split.heap), mm, {"oom"})
    ELSE
    LET hp1 == IF remove # 0 THEN Alloc(split.heap, "filtered", "local")
               ELSE split.heap
        mm1 == IF remove # 0
               THEN [mm EXCEPT !["filtered"] = av_malloc_bytes(cap)]
               ELSE mm
    IN
    IF f.extradata_alloc_fails
    THEN LET u == h2645_unref_filtered(hp1, f) IN
         IF "crash" \in u.events
         THEN Result(split.ret, "NULL", -1, pkt, u.heap, mm1,
                     {"oom"} \cup u.events)
         ELSE Result(split.ret, "NULL", -1, pkt,
                     ff_h2645_packet_uninit(u.heap), mm1,
                     {"oom"} \cup u.events)
    ELSE
    LET hp2 == Alloc(hp1, "extradata", "local")
        w == h2645_walk(nals, 0, types,
                 [extradata |-> av_malloc_bytes(extradata_size
                                    + AV_INPUT_BUFFER_PADDING_SIZE),
                  ecur |-> 0,
                  filtered |-> mm1["filtered"],
                  fcur |-> 0])
        mm2 == [mm1 EXCEPT !["extradata"] = w.extradata,
                           !["filtered"] = w.filtered]
        hp3 == IF remove # 0
               THEN Move(Unref(hp2, pkt.buf), "filtered", "pkt")
               ELSE hp2
        pkt1 == IF remove # 0 THEN h2645_swap(pkt, filtered_size(w, cap))
                ELSE pkt
    IN Result(split.ret, "extradata", extradata_size, pkt1,
              ff_h2645_packet_uninit(hp3), mm2, {})

(***************************************************************************)
(* VC1                                                                     *)
(***************************************************************************)
\* The entry-point start code forgotten.
vc1_is_header_seqhdr_only(state) == state = VC1_CODE_SEQHDR

\* Sequence-header and entry-point start codes open the extradata.
vc1_is_header(state) ==
    state = VC1_CODE_SEQHDR \/ state = VC1_CODE_ENTRYPOINT

\* A scan that stops at the first non-header marker, header seen or not.
RECURSIVE vc1_scan_any_marker(_, _, _, _)
vc1_scan_any_marker(data, i, state, has_extradata) ==
    IF i >= Len(data) THEN 0
    ELSE LET s == ShiftIn(state, data[i + 1]) IN
         IF IS_MARKER(s)
         THEN IF vc1_is_header(s) THEN vc1_scan_any_marker(data, i + 1, s, TRUE)
              ELSE i - 3
         ELSE vc1_scan_any_marker(data, i + 1, s, has_extradata)

\* The scan loop: extradata_size (0: none found).
RECURSIVE vc1_scan(_, _, _, _)
vc1_scan(data, i, state, has_extradata) ==
    IF i >= Len(data) THEN 0
    ELSE LET s == ShiftIn(state, data[i + 1]) IN
         IF IS_MARKER(s)
         THEN IF vc1_is_header(s) THEN vc1_scan(data, i + 1, s, TRUE)
              ELSE IF has_extradata THEN i - 3
              ELSE vc1_scan(data, i + 1, s, has_extradata)
         ELSE vc1_scan(data, i + 1, s, has_extradata)

\* The size shrunk, the data pointer left where it was.
pkt_advance_size_only(pkt, n) == [pkt EXCEPT !.size = @ - n]

\* pkt->data += n; pkt->size -= n
pkt_advance(pkt, n) == [pkt EXCEPT !.off = @ + n, !.size = @ - n]

\* The tail shared by the start-code strategies: copy the first
\* extradata_size bytes out, advance the packet if remove is set.
copy_out(pkt, hp, mm, f, extradata_size) ==
    IF f.extradata_alloc_fails
    THEN Result(AVERROR_ENOMEM, "NULL", -1, pkt, hp, mm, {"oom"})
    ELSE Result(0, "extradata", extradata_size,
                IF remove # 0 THEN pkt_advance(pkt, extradata_size) ELSE pkt,
                Alloc(hp, "extradata", "local"),
                [mm EXCEPT !["extradata"] =
                    memcpy(av_malloc_bytes(extradata_size
                               + AV_INPUT_BUFFER_PADDING_SIZE),
                           0, Payload(pkt, mm), extradata_size)],
                {})

extract_extradata_vc1(pkt, hp, mm, f) ==
    LET extradata_size == vc1_scan(Payload(pkt, mm), 0, UINT32_MAX, FALSE) IN
    IF extradata_size # 0
    THEN copy_out(pkt, hp, mm, f, extradata_size)
    ELSE Result(0, "NULL", -1, pkt, hp, mm, {})

(***************************************************************************)
(* MPEG-1/2, MPEG-4, CAVS                                                  *)
(***************************************************************************)
\* The start code that ends the extradata.
mpeg124_match(state, is_mpeg12) ==
    \/ /\ is_mpeg12
       /\ state # U32(\h1B3)
       /\ state # U32(\h1B5)
       /\ U32Lt(state, U32(\h200))
       /\ ~U32Lt(state, U32(\h100))
    \/ /\ ~is_mpeg12
       /\ (state = U32(\h1B3) \/ state = U32(\h1B6))

\* The scan loop: the index i of the first match (-1: none).
RECURSIVE mpeg124_scan(_, _, _, _)
mpeg124_scan(data, i, state, is_mpeg12) ==
    IF i >= Len(data) THEN -1
    ELSE LET s == ShiftIn(state, data[i + 1]) IN
         IF mpeg124_match(s, is_mpeg12) THEN i
         ELSE mpeg124_scan(data, i + 1, s, is_mpeg12)

\* An off-by-one guard.
mpeg124_guard_ge(i) == i >= 3

\* if (i > 3)
mpeg124_guard(i) == i > 3

\* The start code's length taken off twice.
mpeg124_size_twice(i) == i - 3 - 3

\* *size = i - 3
mpeg124_size(i) == i - 3

extract_extradata_mpeg124(pkt, hp, mm, f) ==
    LET is_mpeg12 == codec_id = "AV_CODEC_ID_MPEG1VIDEO"
                     \/ codec_id = "AV_CODEC_ID_MPEG2VIDEO"
        i == mpeg124_scan(Payload(pkt, mm), 0, UINT32_MAX, is_mpeg12)
    IN
    IF i >= 0 /\ mpeg124_guard(i)
    THEN copy_out(pkt, hp, mm, f, mpeg124_size(i))
    ELSE Result(0, "NULL", -1, pkt, hp, mm, {})

(***************************************************************************)
(* The packet API the filter uses.                                         *)
(***************************************************************************)
\* ff_bsf_get_packet: the queued packet, or EAGAIN when there is none.
ff_bsf_get_packet ==
    IF buffer_pkt = BlankPkt
    THEN [ret |-> AVERROR_EAGAIN, pkt |-> BlankPkt]
    ELSE [ret |-> 0, pkt |-> buffer_pkt]

\* av_packet_add_side_data: the entry takes the buffer over, or ENOMEM.
av_packet_add_side_data(pkt, hp, type, data, size, f) ==
    IF f.side_data_fails
    THEN [ret |-> AVERROR_ENOMEM, pkt |-> pkt, heap |-> hp]
    ELSE [ret |-> 0,
          pkt |-> [pkt EXCEPT !.side_data =
                      Append(@, [type |-> type, data |-> data, size |-> size])],
          heap |-> Move(hp, data, "side_data")]

\* av_freep(&extradata)
av_freep(hp, h) == Unref(hp, h)

\* The side-data entries of a packet are released one by one.
RECURSIVE free_side_data(_, _)
free_side_data(sd, hp) ==
    IF sd = <<>> THEN hp
    ELSE free_side_data(Tail(sd), Unref(hp, Head(sd).data))

\* av_packet_free: whatever the packet still holds is released.
av_packet_free(pkt, hp) ==
    free_side_data(pkt.side_data,
                   IF pkt.buf = "NULL" THEN hp ELSE Unref(hp, pkt.buf))

\* s->extract(ctx, in, &extradata, &extradata_size)
call_extract(pkt, hp, mm, f) ==
    CASE extract = "extract_extradata_h2645" ->
            extract_extradata_h2645(pkt, hp, mm, f)
      [] extract = "extract_extradata_vc1" ->
            extract_extradata_vc1(pkt, hp, mm, f)
      [] extract = "extract_extradata_mpeg124" ->
            extract_extradata_mpeg124(pkt, hp, mm, f)

\* The sign of the failure test turned round.
strategy_failed_positive(r) == r > 0

\* if (ret < 0) goto fail;
strategy_failed(r) == r < 0

\* How a call ends: what it returns, the output packet, and the memory.
Done(r, o, hp, mm, ev, xret) ==
    [crashed |-> FALSE, ret |-> r, out |-> o, heap |-> hp, mem |-> mm,
     events |-> ev, extract_ret |-> xret]

\* extract_extradata_filter after ff_bsf_get_packet succeeded.
filter_body(in, f) ==
    LET r == call_extract(in, heap, mem, f) IN
    IF "crash" \in r.events
    THEN [crashed |-> TRUE, ret |-> ret, out |-> out, heap |-> r.heap,
          mem |-> r.mem, events |-> r.events, extract_ret |-> extract_ret]
    ELSE IF strategy_failed(r.ret)
    THEN Done(r.ret, out, av_packet_free(r.pkt, r.heap), r.mem,
              r.events, r.ret)
    ELSE IF r.data # "NULL"
    THEN LET sd == av_packet_add_side_data(r.pkt, r.heap,
                       "AV_PKT_DATA_NEW_EXTRADATA", r.data, r.size, f)
         IN IF sd.ret < 0
            THEN Done(sd.ret, out,
                      av_packet_free(r.pkt, av_freep(r.heap, r.data)),
                      r.mem, r.events \cup {"side_data_failed"}, r.ret)
            ELSE \* av_packet_move_ref(out, in); av_packet_free(&in)
                 Done(sd.ret, sd.pkt, av_packet_free(BlankPkt, sd.heap),
                      r.mem, r.events, r.ret)
    ELSE Done(r.ret, r.pkt, av_packet_free(BlankPkt, r.heap), r.mem,
              r.events, r.ret)

(***************************************************************************)
(* Actions.                                                                *)
(***************************************************************************)
\* The first entry of the table for the codec sets s->extract.
extract_extradata_init ==
    /\ pc = "new"
    /\ LET found == {i \in 1..Len(extract_tab) : extract_tab[i].id = codec_id}
           first == CHOOSE i \in found : \A j \in found : i <= j
           e == IF found = {} THEN extract ELSE extract_tab[first].extract
       IN /\ extract' = e
          /\ pc' = IF e = "NULL" THEN "init_failed" ELSE "ready"
          /\ ret' = IF e = "NULL" THEN AVERROR_BUG ELSE 0
    /\ UNCHANGED <<codec_id, remove, buffer_pkt, in_nals, out, extract_ret,
                   heap, mem, events>>

\* One invocation of the filter callback.
extract_extradata_filter(f) ==
    /\ pc = "ready"
    /\ LET got == ff_bsf_get_packet IN
       IF got.ret < 0
       THEN /\ pc' = "returned"
            /\ ret' = got.ret
            /\ UNCHANGED <<buffer_pkt, out, extract_ret, heap, mem, events>>
       ELSE LET fin == filter_body(got.pkt, f) IN
            /\ pc' = IF fin.crashed THEN "crashed" ELSE "returned"
            /\ ret' = fin.ret
            /\ buffer_pkt' = BlankPkt
            /\ out' = fin.out
            /\ extract_ret' = fin.extract_ret
            /\ heap' = fin.heap
            /\ mem' = fin.mem
            /\ events' = fin.events
    /\ UNCHANGED <<codec_id, remove, extract, in_nals>>

(***************************************************************************)
(* The packets the host queues.                                            *)
(***************************************************************************)
StartCode(c) == <<0, 0, 1, c>>

\* Chunks of a VC1 payload: bytes, a bare prefix, frame / entry-point /
\* sequence-header start codes.
VC1Chunks ==
    {<<0>>, <<1>>, <<0, 0, 1>>,
     StartCode(\h0D), StartCode(\h0E), StartCode(\h0F)}

\* Chunks of an MPEG payload: bytes, a bare prefix, sequence-header,
\* extension and VOP start codes.
MpegChunks ==
    {<<0>>, <<1>>, <<0, 0, 1>>,
     StartCode(\hB3), StartCode(\hB5), StartCode(\hB6)}

\* Every concatenation of at most n chunks.
RECURSIVE ChunkSeqs(_, _)
ChunkSeqs(C, n) ==
    IF n = 0 THEN {<<>>}
    ELSE LET S == ChunkSeqs(C, n - 1) IN S \cup {s \o c : s \in S, c \in C}

NAL(t, raw) == [type |-> t, raw_data |-> raw, raw_size |-> Len(raw)]

H264Nals ==
    {NAL("H264_NAL_SPS", <<\hAA, \hBB>>), NAL("H264_NAL_PPS", <<\hCC>>),
     NAL("H264_NAL_IDR_SLICE", <<\hCC, \hDD, \hEE>>),
     NAL("H264_NAL_SLICE", <<\hAA, \hBB>>)}

HEVCNals ==
    {NAL("HEVC_NAL_VPS", <<\hAA, \hBB>>), NAL("HEVC_NAL_SPS", <<\hCC>>),
     NAL("HEVC_NAL_PPS", <<\hDD, \hEE>>),
     NAL("HEVC_NAL_IDR_W_RADL", <<\hCC, \hDD, \hEE>>),
     NAL("HEVC_NAL_TRAIL_R", <<\hAA, \hBB>>)}

\* Every list of at most n units of a pool.
RECURSIVE NalLists(_, _)
NalLists(P, n) ==
    IF n = 0 THEN {<<>>}
    ELSE LET S == NalLists(P, n - 1) IN S \cup {Append(s, x) : s \in S, x \in P}

\* The Annex B bytes of a list of units: each behind a 3-byte start code.
RECURSIVE AnnexB(_)
AnnexB(nals) ==
    IF nals = <<>> THEN <<>>
    ELSE <<0, 0, 1>> \o Head(nals).raw_data \o AnnexB(Tail(nals))

Input(data, nals) == [queued |-> TRUE, data |-> data, nals |-> nals]

NoInput == [queued |-> FALSE, data |-> <<>>, nals |-> <<>>]

\* The packets tried for a codec; also no packet at all.
Inputs(codec) ==
    {NoInput} \cup
    CASE codec = "AV_CODEC_ID_H264" ->
            {Input(AnnexB(n), n) : n \in NalLists(H264Nals, MaxNals)}
      [] codec = "AV_CODEC_ID_HEVC" ->
            {Input(AnnexB(n), n) : n \in NalLists(HEVCNals, MaxNals)}
      [] codec = "AV_CODEC_ID_VC1" ->
            {Input(d, <<>>) : d \in ChunkSeqs(VC1Chunks, MaxChunks)}
      [] codec = "AV_CODEC_ID_NONE" -> {Input(<<>>, <<>>)}
      [] OTHER ->
            {Input(d, <<>>) : d \in ChunkSeqs(MpegChunks, MaxChunks)}

\* A context as the host allocates it, with one packet queued (or none).
InitWith(codecs, In) ==
    /\ pc = "new"
    /\ codec_id \in codecs
    /\ remove \in {0, 1}
    /\ extract = "NULL"
    /\ \E inp \in In[codec_id] :
          /\ buffer_pkt = IF inp.queued
                          THEN [buf |-> "inbuf", off |-> 0,
                                size |-> Len(inp.data), side_data |-> <<>>]
                          ELSE BlankPkt
          /\ in_nals = inp.nals
          /\ mem = [h \in {"inbuf", "filtered", "extradata"} |->
                       IF h = "inbuf" THEN inp.data ELSE <<>>]
          /\ heap = [h \in Handles |->
                       IF h = "inbuf" /\ inp.queued
                       THEN [acq |-> 1, rel |-> 0, owner |-> "pkt"]
                       ELSE [acq |-> 0, rel |-> 0, owner |-> "none"]]
    /\ out = BlankPkt
    /\ ret = 0
    /\ extract_ret = 1
    /\ events = {}

Codecs == {codec_ids[i] : i \in 1..Len(codec_ids)} \cup {"AV_CODEC_ID_NONE"}

Init == InitWith(Codecs, [c \in Codecs |-> Inputs(c)])

Next ==
    \/ extract_extradata_init
    \/ \E f \in Faults : extract_extradata_filter(f)

Spec == Init /\ [][Next]_vars

(***************************************************************************)
(* Vocabulary of the properties: the input and the output of the call,     *)
(* and start codes described by their position in the bytes (not by the    *)
(* rolling window the code uses to find them).                             *)
(***************************************************************************)
\* The payload the host queued, and its length.
InData == mem["inbuf"]

InSize == Len(InData)

\* A packet was queued and the callback has returned.
Returned == pc = "returned" /\ heap["inbuf"].acq = 1

IsH2645 == codec_id \in {"AV_CODEC_ID_H264", "AV_CODEC_ID_HEVC"}

IsVC1 == codec_id = "AV_CODEC_ID_VC1"

IsMpeg12 == codec_id \in {"AV_CODEC_ID_MPEG1VIDEO", "AV_CODEC_ID_MPEG2VIDEO"}

IsMpeg4 == codec_id \in {"AV_CODEC_ID_MPEG4", "AV_CODEC_ID_CAVS"}

\* The call went through with nothing failing.
Clean == Returned /\ ret = 0 /\ events = {}

\* The packet as it was queued.
OriginalPkt ==
    [buf |-> "inbuf", off |-> 0, size |-> InSize, side_data |-> <<>>]

\* The extradata buffer was produced by the strategy, and its length.
Produced == heap["extradata"].acq = 1

ProducedLen == Len(mem["extradata"]) - AV_INPUT_BUFFER_PADDING_SIZE

ProducedBytes == SubSeq(mem["extradata"], 1, ProducedLen)

\* The extradata the output packet carries.
OutExtradata == SubSeq(mem[out.side_data[1].data], 1, out.side_data[1].size)

Least(S) == CHOOSE x \in S : \A y \in S : x <= y

\* A start code 00 00 01 xx begins at byte offset p of d.
MarkerAt(d, p) ==
    p + 4 <= Len(d) /\ d[p + 1] = 0 /\ d[p + 2] = 0 /\ d[p + 3] = 1

VC1HeaderAt(d, p) == MarkerAt(d, p) /\ d[p + 4] \in {\h0E, \h0F}

VC1NonHeaderAt(d, p) == MarkerAt(d, p) /\ d[p + 4] \notin {\h0E, \h0F}

\* Offsets of the non-header markers that follow a header marker.
VC1Ends(d) ==
    {p \in 0..Len(d) :
        VC1NonHeaderAt(d, p) /\ \E h \in 0..(p - 1) : VC1HeaderAt(d, h)}

\* Offsets of all non-header markers.
VC1NonHeaders(d) == {p \in 0..Len(d) : VC1NonHeaderAt(d, p)}

\* Offsets of the start codes that end the extradata of an MPEG payload.
MpegEnds(d) ==
    {p \in 0..Len(d) :
        /\ MarkerAt(d, p)
        /\ IF IsMpeg12 THEN d[p + 4] \notin {\hB3, \hB5}
                       ELSE d[p + 4] \in {\hB3, \hB6}}

\* The units of an extractable type, per codec family, and the others.
Extractable(nal) ==
    IF codec_id = "AV_CODEC_ID_HEVC"
    THEN nal.type \in {"HEVC_NAL_VPS", "HEVC_NAL_SPS", "HEVC_NAL_PPS"}
    ELSE nal.type \in {"H264_NAL_SPS", "H264_NAL_PPS"}

NotExtractable(nal) == ~Extractable(nal)

\* (00 00 01, raw bytes) per unit, in order.
RECURSIVE Framed(_)
Framed(units) ==
    IF units = <<>> THEN <<>>
    ELSE <<0, 0, 1>> \o Head(units).raw_data \o Framed(Tail(units))

RECURSIVE SumCost(_)
SumCost(units) ==
    IF units = <<>> THEN 0 ELSE Head(units).raw_size + 3 + SumCost(Tail(units))

\* The raw bytes of the units of framed bytes, given the units' sizes.
RECURSIVE Unframe(_, _)
Unframe(bytes, sizes) ==
    IF sizes = <<>> THEN <<>>
    ELSE <<SubSeq(bytes, 4, 3 + Head(sizes))>>
         \o Unframe(SubSeq(bytes, 4 + Head(sizes), Len(bytes)), Tail(sizes))

RECURSIVE Sizes(_)
Sizes(units) ==
    IF units = <<>> THEN <<>> ELSE <<Head(units).raw_size>> \o Sizes(Tail(units))

RECURSIVE Raws(_)
Raws(units) ==
    IF units = <<>> THEN <<>> ELSE <<Head(units).raw_data>> \o Raws(Tail(units))

\* The units of the extradata (e) and of the payload (p) put back in the
\* order of the original units.
RECURSIVE Merge(_, _, _)
Merge(nals, e, p) ==
    IF nals = <<>> THEN <<>>
    ELSE IF Extractable(Head(nals))
    THEN <<Head(e)>> \o Merge(Tail(nals), Tail(e), p)
    ELSE <<Head(p)>> \o Merge(Tail(nals), e, Tail(p))

(***************************************************************************)
(* Scenario B: MPEG-1/2 payloads whose first start code that ends the      *)
(* extradata is a picture start code beginning at byte offset 10.          *)
(***************************************************************************)
PictureAt10(d) ==
    /\ Len(d) >= 14
    /\ \A p \in 0..9 : ~(MarkerAt(d, p) /\ d[p + 4] \notin {\hB3, \hB5})
    /\ SubSeq(d, 11, 14) = StartCode(0)

InputsB(codec) ==
    {Input(p \o StartCode(0) \o t, <<>>) :
        p \in {q \in ChunkSeqs(MpegChunks, MaxChunks + 1) :
                  Len(q) = 10 /\ PictureAt10(q \o StartCode(0))},
        t \in ChunkSeqs(MpegChunks, 1)}

Mpeg12Codecs == {"AV_CODEC_ID_MPEG1VIDEO", "AV_CODEC_ID_MPEG2VIDEO"}

InitB == InitWith(Mpeg12Codecs, [c \in Mpeg12Codecs |-> InputsB(c)])

SpecB == InitB /\ [][Next]_vars

(***************************************************************************)
(* Properties.                                                             *)
(***************************************************************************)

\* C1: H.264/HEVC, both values of remove: when the split succeeds, at least
\* one unit is of an extractable type and nothing fails, the extradata has
\* length sum(raw_size + 3) over the extractable units and is the
\* concatenation, in order, of (00 00 01, raw bytes) of exactly those units.
C1_ExtradataIsFramedUnits ==
    (Clean /\ IsH2645 /\ SelectSeq(in_nals, Extractable) # <<>>) =>
        /\ Len(out.side_data) = 1
        /\ out.side_data[1].type = "AV_PKT_DATA_NEW_EXTRADATA"
        /\ out.side_data[1].size = SumCost(SelectSeq(in_nals, Extractable))
        /\ OutExtradata = Framed(SelectSeq(in_nals, Extractable))

\* C1 happens: two extractable units around one that is not.
C1_Witness ==
    /\ Clean /\ IsH2645 /\ Len(in_nals) = 3
    /\ Extractable(in_nals[1]) /\ ~Extractable(in_nals[2])
    /\ Extractable(in_nals[3])
    /\ Len(out.side_data) = 1

\* C2: H.264/HEVC: when an allocation made during extraction fails, the
\* strategy returns a negative result and the filter returns that error
\* and emits no packet.
C2_AllocFailureIsReported ==
    (Returned /\ IsH2645 /\ "oom" \in events) =>
        extract_ret < 0 /\ ret < 0 /\ out = BlankPkt

\* C3 as stated: MPEG-1/2, picture start code beginning at offset 10: the
\* extradata is the first 7 bytes of the buffer.
C3_First7Bytes ==
    (Clean /\ IsMpeg12 /\ PictureAt10(InData)) =>
        /\ Len(out.side_data) = 1
        /\ OutExtradata = SubSeq(InData, 1, 7)

\* C3 amended: MPEG-1/2, picture start code beginning at offset 10 (its
\* code byte at index 13): the extradata is the first 10 bytes of the
\* buffer, all the bytes before the start code.
C3_First10Bytes ==
    (Clean /\ IsMpeg12 /\ PictureAt10(InData)) =>
        /\ Len(out.side_data) = 1
        /\ out.side_data[1].size = 10
        /\ OutExtradata = SubSeq(InData, 1, 10)

\* C3 happens: such a buffer went through, with remove set.
C3_Witness ==
    /\ Clean /\ IsMpeg12 /\ PictureAt10(InData)
    /\ remove = 1 /\ out.off = 10 /\ Len(out.side_data) = 1

\* C4 as stated: VC1: extradata, when produced, is the leading bytes before
\* the first non-header marker of the buffer, and holds no non-header
\* marker.
C4_BeforeFirstNonHeader ==
    (Returned /\ IsVC1 /\ Produced) =>
        /\ VC1NonHeaders(InData) # {}
        /\ ProducedLen = Least(VC1NonHeaders(InData))
        /\ ProducedBytes = SubSeq(InData, 1, ProducedLen)
        /\ \A p \in VC1NonHeaders(InData) : p >= ProducedLen

\* C4 amended: VC1: extradata, when produced, is the leading bytes before
\* the first non-header marker that follows a sequence-header or
\* entry-point marker.
C4_BeforeFirstNonHeaderAfterHeader ==
    (Returned /\ IsVC1 /\ Produced) =>
        /\ VC1Ends(InData) # {}
        /\ ProducedLen = Least(VC1Ends(InData))
        /\ ProducedBytes = SubSeq(InData, 1, ProducedLen)

\* C4 happens: extradata produced from a buffer that begins with a
\* non-header marker.
C4_Witness ==
    /\ Returned /\ IsVC1 /\ Produced
    /\ VC1NonHeaderAt(InData, 0)
    /\ ProducedLen = 8

\* C5: H.264/HEVC with remove set, split succeeded, some unit extractable,
\* nothing failed: the new payload is the concatenation, in order, of
\* (00 00 01, raw bytes) of exactly the other units, its length is the
\* number of bytes written, and the units of extradata and payload merged
\* in the original order are the raw bytes of every unit, once each.
C5_RemovalConsistency ==
    (Clean /\ IsH2645 /\ remove = 1 /\ SelectSeq(in_nals, Extractable) # <<>>) =>
        LET keep == SelectSeq(in_nals, NotExtractable)
            ext  == SelectSeq(in_nals, Extractable)
        IN /\ out.buf = "filtered" /\ out.off = 0
           /\ out.size = SumCost(keep)
           /\ Payload(out, mem) = Framed(keep)
           /\ Len(out.side_data) = 1
           /\ Merge(in_nals, Unframe(OutExtradata, Sizes(ext)),
                    Unframe(Payload(out, mem), Sizes(keep))) = Raws(in_nals)
           /\ Len(OutExtradata) + out.size = SumCost(in_nals)
           /\ (in_nals = <<NAL("H264_NAL_SPS", <<\hAA, \hBB>>),
                           NAL("H264_NAL_IDR_SLICE", <<\hCC, \hDD, \hEE>>)>>
               => /\ OutExtradata = <<0, 0, 1, \hAA, \hBB>>
                  /\ Payload(out, mem) = <<0, 0, 1, \hCC, \hDD, \hEE>>
                  /\ out.size = 6)

\* C5 happens: SPS 'AA BB' + IDR 'CC DD EE' went through with remove set.
C5_Witness ==
    /\ Clean /\ codec_id = "AV_CODEC_ID_H264" /\ remove = 1
    /\ in_nals = <<NAL("H264_NAL_SPS", <<\hAA, \hBB>>),
                   NAL("H264_NAL_IDR_SLICE", <<\hCC, \hDD, \hEE>>)>>
    /\ out.buf = "filtered"

\* The input holds nothing that ends or makes extradata.
NoQualifying ==
    IF IsH2645 THEN SelectSeq(in_nals, Extractable) = <<>>
    ELSE IF IsVC1 THEN VC1Ends(InData) = {}
    ELSE MpegEnds(InData) = {} \/ Least(MpegEnds(InData)) + 3 <= 3

\* C6: every codec, both values of remove: an input with no qualifying
\* marker sequence or unit produces no extradata and no side-data entry,
\* and the packet passed on has the same buffer, bytes and length.
C6_NothingFoundNothingChanged ==
    (Returned /\ NoQualifying) =>
        /\ ~Produced
        /\ (~IsH2645 => ret = 0)
        /\ (ret = 0 => out = OriginalPkt /\ Payload(out, mem) = InData)

\* C6 happens: an MPEG-4 payload that begins with a VOP start code (found
\* at index 3), remove set.
C6_Witness ==
    /\ Returned /\ IsMpeg4 /\ remove = 1
    /\ MpegEnds(InData) # {} /\ Least(MpegEnds(InData)) = 0
    /\ InSize > 4
    /\ out = OriginalPkt

\* C7: VC1 and MPEG scans, any buffer length n: extradata, when produced,
\* has a length L with 0 < L < n, ends right before a start code whose
\* code byte is at an index above 3, and the side-data entry has that
\* length; a start code found at index <= 3 produces none.
C7_LengthInBounds ==
    ((pc \in {"returned", "crashed"}) /\ (IsVC1 \/ IsMpeg12 \/ IsMpeg4)) =>
        /\ Produced =>
              /\ 0 < ProducedLen /\ ProducedLen < InSize
              /\ MarkerAt(InData, ProducedLen)
              /\ \A k \in 1..Len(out.side_data) :
                    out.side_data[k].size = ProducedLen
        /\ (~IsVC1 /\ MpegEnds(InData) # {} /\ Least(MpegEnds(InData)) = 0)
              => ~Produced
        /\ InSize < 5 => ~Produced

\* C7 happens: a start code found at index 4, the first that counts.
C7_Witness ==
    /\ Returned /\ IsMpeg12 /\ Produced
    /\ ProducedLen = 1 /\ InSize = 5

\* C8: every strategy, both values of remove: a failure of the strategy or
\* of the side-data attachment is what the call returns, with the output
\* packet left empty; the output packet is filled only on success, and a
\* packet whose payload was advanced or swapped is never passed on without
\* its extradata entry.
C8_FailureAtomicity ==
    /\ out # BlankPkt => pc = "returned" /\ ret = 0
    /\ (pc = "returned" /\ extract_ret < 0) =>
            ret = extract_ret /\ out = BlankPkt
    /\ (pc = "returned" /\ "side_data_failed" \in events) =>
            ret = AVERROR_ENOMEM /\ out = BlankPkt
    /\ (out # BlankPkt /\ out # OriginalPkt) =>
            /\ Len(out.side_data) = 1
            /\ out.side_data[1].type = "AV_PKT_DATA_NEW_EXTRADATA"

\* C8 happens: the payload was swapped, then the attachment failed.
C8_Witness ==
    /\ Returned /\ IsH2645 /\ remove = 1
    /\ "side_data_failed" \in events
    /\ heap["filtered"].acq = 1
    /\ ret < 0 /\ out = BlankPkt

\* C9: at return, every buffer acquired in the call was released exactly
\* once or has one owner (the packet or its side-data entry), the NAL list
\* was released after a successful split, and no release was applied to a
\* handle never acquired or initialised in the call.
C9_OwnershipDiscipline ==
    Returned =>
        /\ \A h \in Handles :
              heap[h].acq = 1 =>
                 \/ heap[h].rel = 1 /\ heap[h].owner = "none"
                 \/ heap[h].rel = 0 /\ heap[h].owner \in {"pkt", "side_data"}
        /\ \A h \in Handles : heap[h].acq = 0 => heap[h].rel = 0
        /\ heap["nals"].acq = 1 => heap["nals"].rel = 1
        /\ "uninit_release" \notin events

\* C10: VC1 and MPEG: extradata of length L is the first L bytes of the
\* payload P; with remove set the payload afterwards is P from offset L on,
\* in the same buffer; without it pointer, bytes and length are unchanged.
C10_PayloadPartition ==
    (Clean /\ (IsVC1 \/ IsMpeg12 \/ IsMpeg4) /\ out.side_data # <<>>) =>
        LET L == out.side_data[1].size IN
        /\ OutExtradata = SubSeq(InData, 1, L)
        /\ out.buf = "inbuf"
        /\ IF remove # 0
           THEN /\ out.off = L
                /\ out.size = InSize - L
                /\ Payload(out, mem) = SubSeq(InData, L + 1, InSize)
                /\ OutExtradata \o Payload(out, mem) = InData
           ELSE /\ out.off = 0
                /\ out.size = InSize
                /\ Payload(out, mem) = InData

\* C10 happens: a VC1 header of 8 bytes was cut off the payload.
C10_Witness ==
    /\ Clean /\ IsVC1 /\ remove = 1
    /\ Len(out.side_data) = 1 /\ out.off = 8 /\ out.size >= 4

====
